---- MODULE Spec2Model ----
(***************************************************************************)
(* A model of the go-travel backend: the itinerary router of solver.py     *)
(* ("days as vehicles" routing with time windows and droppable places) and *)
(* the utility scorer of scoring.py.                                       *)
(*                                                                         *)
(* Units.  Times are minutes, as in the source.  Scores are hundredths of  *)
(* a point (the scorer hands scores over rounded to two decimals), so the  *)
(* source's int(score * 10) is score \div 10 here.  Places lie on one      *)
(* meridian: a latitude is a whole number of steps of 0.009 degrees (one   *)
(* step is 1.00075 km) and every place that has a longitude has the same   *)
(* one, which makes the haversine distance proportional to the difference  *)
(* of latitudes.                                                           *)
(***************************************************************************)
EXTENDS Integers, Sequences, FiniteSets, TLC

VARIABLES places, hotel_coords, num_days, time_limit_seconds,
          pc, data, min_cost, solution, converged, days,
          candidates, weather, centroid_arg, rank_pc, ranked, ranked_again,
          scorer_attrs,
          regular_hours, parse_pc, parsed,
          enrich_pc, enrich_in, lookups, completed, enriched,
          start_date, end_date, trip_pc, response

\* The router's call (solver.py), the scorer's call (scoring.py) and the
\* intake of place data (places_api.py).
router == <<places, hotel_coords, num_days, time_limit_seconds,
            pc, data, min_cost, solution, converged, days>>
scorer == <<candidates, weather, centroid_arg, rank_pc, ranked, ranked_again,
            scorer_attrs>>

enrichment == <<enrich_pc, enrich_in, lookups, completed, enriched>>
intake == <<regular_hours, parse_pc, parsed, enrichment>>
trip == <<start_date, end_date, trip_pc, response>>

vars == <<router, scorer, intake, trip>>

(***************************************************************************)
(* Optional values: Python's None and a present value.                     *)
(***************************************************************************)
None == <<>>
Some(x) == <<x>>
Val(o) == o[1]

Max2(a, b) == IF a >= b THEN a ELSE b
Min2(a, b) == IF a <= b THEN a ELSE b
Abs(a) == IF a >= 0 THEN a ELSE 0 - a
Range(s) == {s[i] : i \in 1..Len(s)}

RECURSIVE SumSeq(_)
SumSeq(s) == IF s = <<>> THEN 0 ELSE s[1] + SumSeq(Tail(s))

RECURSIVE SelectSeqIdx(_, _)
\* The indices i of s, in order, with s[i] in the set keep.
SelectSeqIdx(s, keep) ==
    IF s = <<>> THEN <<>>
    ELSE LET rest == SelectSeqIdx(SubSeq(s, 1, Len(s) - 1), keep)
         IN  IF s[Len(s)] \in keep THEN Append(rest, Len(s)) ELSE rest

(***************************************************************************)
(* Bounds of the model.                                                    *)
(***************************************************************************)
MaxPlaces == 2
MaxDays == 2
MaxLat == 60
MeridianLng == 1
MaxCandidates == 3

(***************************************************************************)
(* ItinerarySolver constants (solver.py:99-149).                           *)
(***************************************************************************)
DAY_START_TIME == 540
DAY_END_TIME == 1320
MAX_DAY_DURATION == 780
DEFAULT_VISIT_DURATION == 60
TRAVEL_BUFFER == 10
SLACK_MAX == 120

\* str.lower() on the category and type strings the model uses.
Lower(c) == CASE c = "Museum" -> "museum" [] c = "Park" -> "park" [] OTHER -> c

VISIT_DURATIONS ==
    [c \in {"landmark", "museum", "restaurant", "nature", "nightlife", "club",
            "bar", "shopping", "cultural", "cafe", "breakfast", "brunch",
            "lunch", "dinner"} |->
        CASE c = "landmark"   -> 45
          [] c = "museum"     -> 120
          [] c = "restaurant" -> 75
          [] c = "nature"     -> 90
          [] c = "nightlife"  -> 120
          [] c = "club"       -> 120
          [] c = "bar"        -> 90
          [] c = "shopping"   -> 60
          [] c = "cultural"   -> 60
          [] c = "cafe"       -> 30
          [] c = "breakfast"  -> 45
          [] c = "brunch"     -> 60
          [] c = "lunch"      -> 60
          [] c = "dinner"     -> 90]

CATEGORY_TIME_WINDOWS ==
    [c \in {"breakfast", "brunch", "cafe", "museum", "landmark", "cultural",
            "nature", "shopping", "lunch", "restaurant", "dinner",
            "nightlife", "club", "bar"} |->
        CASE c = "breakfast"  -> <<540, 660>>
          [] c = "brunch"     -> <<600, 780>>
          [] c = "cafe"       -> <<480, 1080>>
          [] c = "museum"     -> <<540, 900>>
          [] c = "landmark"   -> <<540, 1020>>
          [] c = "cultural"   -> <<540, 1020>>
          [] c = "nature"     -> <<540, 1020>>
          [] c = "shopping"   -> <<600, 1080>>
          [] c = "lunch"      -> <<720, 840>>
          [] c = "restaurant" -> <<720, 1200>>
          [] c = "dinner"     -> <<1080, 1260>>
          [] c = "nightlife"  -> <<1080, 1380>>
          [] c = "club"       -> <<1260, 1440>>
          [] c = "bar"        -> <<1080, 1380>>]

(***************************************************************************)
(* Travel time.  A location is a latitude of n/d steps (the centroid of    *)
(* several places need not be a whole number).  On a meridian the          *)
(* haversine distance is 6371 km * pi/180 per degree, which at 12 km/h is  *)
(* 5.003772 minutes per step of 0.009 degrees; int() truncates.            *)
(***************************************************************************)
Loc(n, d) == [n |-> n, d |-> d]

haversine_minutes(a, b) ==
    (Abs(a.n * b.d - b.n * a.d) * 5003772) \div (a.d * b.d * 1000000)

calculate_travel_time(a, b) == haversine_minutes(a, b) + TRAVEL_BUFFER

get_visit_duration(category) ==
    IF Lower(category) \in DOMAIN VISIT_DURATIONS
    THEN VISIT_DURATIONS[Lower(category)]
    ELSE DEFAULT_VISIT_DURATION

\* dict.get(key, default) on an optional field.
GetOr(o, default) == IF o = None THEN default ELSE Val(o)

\* The (earliest, latest) window of a place, minutes from midnight.
get_time_window(place, day_of_week) ==
    LET category == Lower(GetOr(place.category, ""))
        opening_hours == place.opening_hours
        visit_duration == get_visit_duration(category)
        inTable == category \in DOMAIN CATEGORY_TIME_WINDOWS
        e0 == IF inTable THEN CATEGORY_TIME_WINDOWS[category][1]
              ELSE DAY_START_TIME
        l0 == IF inTable THEN CATEGORY_TIME_WINDOWS[category][2]
              ELSE DAY_END_TIME - visit_duration
        known == /\ opening_hours # None
                 /\ day_of_week \in DOMAIN Val(opening_hours)
        hours == Val(opening_hours)[day_of_week]
        e1 == IF known THEN Max2(e0, hours.open) ELSE e0
        l1 == IF known THEN Min2(l0, hours.close - visit_duration) ELSE l0
        e2 == IF known /\ e1 > l1 THEN hours.open ELSE e1
        l2 == IF known /\ e1 > l1
              THEN Max2(hours.open, hours.close - visit_duration) ELSE l1
        earliest == Max2(e2, DAY_START_TIME)
        latest == Max2(Min2(l2, DAY_END_TIME - visit_duration), earliest)
    IN  <<earliest, latest>>

(***************************************************************************)
(* create_data_model (solver.py:264-354).  Node 0 is the depot (the hotel) *)
(* and node i the i-th place handed in.                                    *)
(***************************************************************************)
RatEq(a, b) == a.n * b.d = b.n * a.d

\* Python's "x or y" on an optional number: None and 0 are both falsy.
OrElse(o, fallback) == IF o = None \/ Val(o) = 0 THEN fallback ELSE Loc(Val(o), 1)

place_location(place, hotel) ==
    [lat |-> OrElse(place.lat, hotel.lat), lng |-> OrElse(place.lng, hotel.lng)]

locations_of(ps, hotel) ==
    [i \in 0..Len(ps) |-> IF i = 0 THEN hotel ELSE place_location(ps[i], hotel)]

time_matrix_of(locations) ==
    [i \in DOMAIN locations |-> [j \in DOMAIN locations |->
        IF i = j THEN 0
        ELSE calculate_travel_time(locations[i].lat, locations[j].lat)]]

service_times_of(ps) ==
    [i \in 0..Len(ps) |->
        IF i = 0 THEN 0 ELSE get_visit_duration(GetOr(ps[i].category, "landmark"))]

\* Mutant: int(score * 100).
penalties_times_100(ps) ==
    [i \in 0..Len(ps) |-> IF i = 0 THEN 0 ELSE GetOr(ps[i].score, 5000)]

penalties_of(ps) ==
    [i \in 0..Len(ps) |-> IF i = 0 THEN 0 ELSE GetOr(ps[i].score, 5000) \div 10]

\* Windows relative to the day start; get_time_window is called without a
\* weekday, so with its default, 1.
time_windows_of(ps) ==
    [i \in 0..Len(ps) |->
        IF i = 0 THEN <<0, MAX_DAY_DURATION>>
        ELSE LET w == get_time_window(ps[i], 1)
             IN  <<Max2(0, w[1] - DAY_START_TIME),
                   Min2(MAX_DAY_DURATION, w[2] - DAY_START_TIME)>>]

create_data_model(ps, hotel, n_days) ==
    [time_matrix |-> time_matrix_of(locations_of(ps, hotel)),
     service_times |-> service_times_of(ps),
     prizes |-> penalties_of(ps),
     penalties |-> penalties_of(ps),
     time_windows |-> time_windows_of(ps),
     num_vehicles |-> n_days,
     depot |-> 0,
     num_locations |-> Len(ps) + 1,
     locations |-> locations_of(ps, hotel),
     places |-> ps,
     max_time_per_vehicle |-> MAX_DAY_DURATION]

(***************************************************************************)
(* solve, first part (solver.py:375-394): the places with coordinates and  *)
(* the hotel, which defaults to their centroid.                            *)
(***************************************************************************)
HasCoords(p) == p.lat # None /\ p.lng # None

\* Indices into the input list of the places that have both coordinates.
valid_indices(ps) ==
    SelectSeqIdx([i \in 1..Len(ps) |-> IF HasCoords(ps[i]) THEN 1 ELSE 0], {1})

valid_places(ps) == [k \in 1..Len(valid_indices(ps)) |-> ps[valid_indices(ps)[k]]]

centroid(vps) ==
    [lat |-> Loc(SumSeq([k \in 1..Len(vps) |-> Val(vps[k].lat)]), Len(vps)),
     lng |-> Loc(SumSeq([k \in 1..Len(vps) |-> Val(vps[k].lng)]), Len(vps))]

hotel_of(hc, vps) ==
    IF hc = None THEN centroid(vps)
    ELSE [lat |-> Loc(Val(hc)[1], 1), lng |-> Loc(Val(hc)[2], 1)]

\* DayItinerary(day_number=i+1) with the dataclass defaults (solver.py:67-74).
EmptyDay(i) ==
    [day_number |-> i, items |-> <<>>, total_travel_time |-> 0,
     total_visit_time |-> 0, total_score |-> 0]

\* Mutants: day_number=i instead of i+1; "return []" for no places.
EmptyDays_zero_based(n) == [i \in 1..n |-> EmptyDay(i - 1)]
EmptyDays_none(n) == <<>>

\* [DayItinerary(day_number=i+1) for i in range(num_days)]
EmptyDays(n) == [i \in 1..n |-> EmptyDay(i)]

(***************************************************************************)
(* The routing model solve builds (solver.py:396-452) and what the library *)
(* may hand back for it.  A plan is one vehicle's route (place nodes in    *)
(* visiting order) with the Time dimension's cumul value at each stop.     *)
(***************************************************************************)
\* time_callback: travel time plus the service time at the destination.
time_callback(d, from_node, to_node) ==
    d.time_matrix[from_node][to_node] + d.service_times[to_node]

\* The dimension's capacity, the third argument of AddDimension.
dimension_capacity(d) == d.max_time_per_vehicle

\* The range SetRange puts on the cumul variable of a place node.
cumul_range(d, node) == d.time_windows[node]

\* The cumul values kept for a stop reached from from_node at from_cumul:
\* the earliest and the latest that the transit, the slack (at most
\* SLACK_MAX), the capacity and the node's range allow.
CumulChoices(d, from_node, from_cumul, node) ==
    LET reach == from_cumul + time_callback(d, from_node, node)
        lo == Max2(cumul_range(d, node)[1], reach)
        hi == Min2(Min2(cumul_range(d, node)[2], reach + SLACK_MAX),
                   dimension_capacity(d))
    IN  IF lo <= hi THEN {lo, hi} ELSE {}

RECURSIVE Schedules(_, _)
\* Every cumul sequence for the stops of route r (start cumul fixed to 0).
Schedules(d, r) ==
    IF r = <<>> THEN {<<>>}
    ELSE LET front == SubSeq(r, 1, Len(r) - 1)
             prev == IF front = <<>> THEN 0 ELSE front[Len(front)]
         IN  UNION {{Append(cs, c) :
                        c \in CumulChoices(d, prev,
                                 IF cs = <<>> THEN 0 ELSE cs[Len(cs)], r[Len(r)])} :
                    cs \in Schedules(d, front)}

\* The earliest cumul at the route's end (back at the depot).
EndCumul(d, r, cs) ==
    IF r = <<>> THEN 0
    ELSE cs[Len(cs)] + time_callback(d, r[Len(r)], d.depot)

RECURSIVE NoRepSeqs(_)
NoRepSeqs(S) ==
    {<<>>} \cup UNION {{<<x>> \o s : s \in NoRepSeqs(S \ {x})} : x \in S}

VehiclePlans(d, S) ==
    UNION {{[route |-> r, cumul |-> cs] :
               cs \in {c \in Schedules(d, r) :
                          EndCumul(d, r, c) <= dimension_capacity(d)}} :
           r \in NoRepSeqs(S)}

RECURSIVE Assignments(_, _, _)
\* One plan per vehicle over the nodes of S, no node in two plans: every
\* node is in one disjunction, so it is on at most one route.
Assignments(d, v, S) ==
    IF v = 0 THEN {<<>>}
    ELSE UNION {{<<p>> \o rest : rest \in Assignments(d, v - 1, S \ Range(p.route))} :
                p \in VehiclePlans(d, S)}

PlaceNodes(d) == 1..(d.num_locations - 1)

FeasibleSolutions(d) == Assignments(d, d.num_vehicles, PlaceNodes(d))

Visited(sol) == UNION {Range(sol[v].route) : v \in 1..Len(sol)}

RECURSIVE ArcCost(_, _, _)
\* The arc costs of a route from node `from` through r back to the depot.
ArcCost(d, from, r) ==
    IF r = <<>> THEN (IF from = d.depot THEN 0 ELSE time_callback(d, from, d.depot))
    ELSE time_callback(d, from, r[1]) + ArcCost(d, r[1], Tail(r))

RECURSIVE SumOver(_, _)
SumOver(f, S) ==
    IF S = {} THEN 0
    ELSE LET x == CHOOSE y \in S : TRUE IN f[x] + SumOver(f, S \ {x})

\* The objective: arc costs, span cost (coefficient 1) and drop penalties.
Cost(d, sol) ==
    SumSeq([v \in 1..Len(sol) |->
               ArcCost(d, d.depot, sol[v].route)
               + EndCumul(d, sol[v].route, sol[v].cumul)])
    + SumOver(d.penalties, PlaceNodes(d) \ Visited(sol))

MinOf(S) == CHOOSE c \in S : \A other \in S : c <= other

(***************************************************************************)
(* _extract_solution (solver.py:475-544).                                  *)
(***************************************************************************)
\* Mutant: the cumul value, the time the visit ends, taken as the arrival.
item_of_arriving_at_cumul(d, origin, plan, k) ==
    [place_index |-> origin[plan.route[k]],
     node |-> plan.route[k],
     lat |-> d.places[plan.route[k]].lat,
     lng |-> d.places[plan.route[k]].lng,
     arrival_time |-> DAY_START_TIME + plan.cumul[k],
     departure_time |-> DAY_START_TIME + plan.cumul[k],
     duration |-> d.service_times[plan.route[k]],
     score |-> GetOr(d.places[plan.route[k]].score, 0),
     category |-> GetOr(d.places[plan.route[k]].category, "")]

\* Mutant: the times left relative to the day start, DAY_START_TIME not
\* added.
item_of_from_day_start(d, origin, plan, k) ==
    [place_index |-> origin[plan.route[k]],
     node |-> plan.route[k],
     lat |-> d.places[plan.route[k]].lat,
     lng |-> d.places[plan.route[k]].lng,
     arrival_time |-> plan.cumul[k] - d.service_times[plan.route[k]],
     departure_time |-> plan.cumul[k],
     duration |-> d.service_times[plan.route[k]],
     score |-> GetOr(d.places[plan.route[k]].score, 0),
     category |-> GetOr(d.places[plan.route[k]].category, "")]

\* The ItineraryItem of the k-th stop of a plan.  place_index is the
\* position in solve's input list of the place dict the item is built from.
item_of(d, origin, plan, k) ==
    LET node == plan.route[k]
        place == d.places[node]
        cumul_time == plan.cumul[k]
        duration == d.service_times[node]
    IN  [place_index |-> origin[node],
         node |-> node,
         lat |-> place.lat,
         lng |-> place.lng,
         arrival_time |-> DAY_START_TIME + (cumul_time - duration),
         departure_time |-> DAY_START_TIME + cumul_time,
         duration |-> duration,
         score |-> GetOr(place.score, 0),
         category |-> GetOr(place.category, "")]

\* Travel is added for a stop only when the previous index is not the start.
total_travel_time_of(d, plan) ==
    SumSeq([k \in 1..Len(plan.route) |->
               IF k = 1 THEN 0
               ELSE d.time_matrix[plan.route[k - 1]][plan.route[k]]])

\* Mutant: total_visit_time += departure_time.
total_visit_time_departures(d, plan) ==
    SumSeq([k \in 1..Len(plan.route) |-> DAY_START_TIME + plan.cumul[k]])

total_visit_time_of(d, plan) ==
    SumSeq([k \in 1..Len(plan.route) |-> d.service_times[plan.route[k]]])

total_score_of(d, plan) ==
    SumSeq([k \in 1..Len(plan.route) |-> GetOr(d.places[plan.route[k]].score, 0)])

extract_day(d, origin, sol, vehicle_id) ==
    [day_number |-> vehicle_id,
     items |-> [k \in 1..Len(sol[vehicle_id].route) |->
                   item_of(d, origin, sol[vehicle_id], k)],
     total_travel_time |-> total_travel_time_of(d, sol[vehicle_id]),
     total_visit_time |-> total_visit_time_of(d, sol[vehicle_id]),
     total_score |-> total_score_of(d, sol[vehicle_id])]

\* Mutant: index = routing.Start(0) for every vehicle.
extract_solution_first_route(d, origin, sol) ==
    [v \in 1..d.num_vehicles |->
        [extract_day(d, origin, sol, 1) EXCEPT !.day_number = v]]

extract_solution(d, origin, sol) ==
    [v \in 1..d.num_vehicles |-> extract_day(d, origin, sol, v)]

(***************************************************************************)
(* Inputs of a solve call.                                                 *)
(***************************************************************************)
Place(lat, lng, category, score, opening_hours) ==
    [lat |-> lat, lng |-> lng, category |-> category, score |-> score,
     opening_hours |-> opening_hours]

\* time_limit_seconds' default (solver.py:361).
DEFAULT_TIME_LIMIT == 10

Coords ==
    {<<None, Some(MeridianLng)>>, <<Some(1), None>>}
    \cup {<<Some(x), Some(MeridianLng)>> : x \in {0, 1, MaxLat}}

Profiles == {<<Some("brunch"), Some(9000)>>, <<None, Some(500)>>}

PlaceChoices ==
    {Place(c[1], c[2], k[1], k[2], None) : c \in Coords, k \in Profiles}

RECURSIVE SeqsUpTo(_, _)
SeqsUpTo(S, n) ==
    IF n = 0 THEN {<<>>}
    ELSE LET shorter == SeqsUpTo(S, n - 1)
         IN  shorter \cup {Append(s, x) : s \in {t \in shorter : Len(t) = n - 1}, x \in S}

HotelChoices == {None, Some(<<1, MeridianLng>>)}

\* Before the first rank_places call: a UtilityScorer has no attribute of
\* its own (scoring.py:101-103).
NotCalled ==
    /\ rank_pc = "Unranked"
    /\ ranked = None
    /\ ranked_again = None
    /\ scorer_attrs = {}

\* No rank_places call.
Unranked ==
    /\ candidates = <<>>
    /\ weather = None
    /\ centroid_arg = None
    /\ NotCalled

\* No enrich_candidates call.
NoEnrichment ==
    /\ enrich_pc = "NotCalled"
    /\ enrich_in = <<>>
    /\ lookups = <<>>
    /\ completed = <<>>
    /\ enriched = None

\* No place data taken in.
NoIntake ==
    /\ regular_hours = None
    /\ parse_pc = "Unparsed"
    /\ parsed = None
    /\ NoEnrichment

\* No trip requested.
NoTrip ==
    /\ start_date = None
    /\ end_date = None
    /\ trip_pc = "NoRequest"
    /\ response = None

Idle ==
    /\ pc = "Unsolved"
    /\ data = None
    /\ min_cost = None
    /\ solution = None
    /\ converged = FALSE
    /\ days = None

Init ==
    /\ places \in SeqsUpTo(PlaceChoices, MaxPlaces)
    /\ hotel_coords \in HotelChoices
    /\ num_days \in (0 - 1)..MaxDays
    /\ time_limit_seconds \in {0, DEFAULT_TIME_LIMIT}
    /\ Idle
    /\ NoTrip
    /\ NoIntake
    /\ Unranked

(***************************************************************************)
(* solve (solver.py:356-473), one action per phase:                        *)
(* Unsolved -> Modeled -> Solved | Infeasible -> Returned.                 *)
(***************************************************************************)
inputs == <<places, hotel_coords, num_days, time_limit_seconds>>

\* solver.py:375-385: nothing to route; range(num_days) is empty for
\* num_days <= 0.
ReturnNoPlaces ==
    /\ pc = "Unsolved"
    /\ places = <<>> \/ valid_places(places) = <<>>
    /\ days' = Some(EmptyDays(num_days))
    /\ pc' = "Returned"
    /\ UNCHANGED <<inputs, data, min_cost, solution, converged>>
    /\ UNCHANGED <<scorer, intake, trip>>

\* The least objective value of the routing model over its assignments.
LeastCost(d) == MinOf({Cost(d, s) : s \in FeasibleSolutions(d)})

\* solver.py:387-452: the data model and the routing model.  min_cost
\* records the model's least objective value; the code does not compute it.
BuildModel ==
    /\ pc = "Unsolved"
    /\ valid_places(places) # <<>>
    /\ num_days >= 1
    /\ data' = Some(create_data_model(valid_places(places),
                        hotel_of(hotel_coords, valid_places(places)), num_days))
    /\ min_cost' = Some(LeastCost(Val(data')))
    /\ pc' = "Modeled"
    /\ UNCHANGED <<inputs, solution, converged, days>>
    /\ UNCHANGED <<scorer, intake, trip>>

\* solver.py:398-402: the library refuses a routing model without vehicles,
\* so the call ends without a result.
AbortNoVehicles ==
    /\ pc = "Unsolved"
    /\ valid_places(places) # <<>>
    /\ num_days < 1
    /\ data' = Some(create_data_model(valid_places(places),
                        hotel_of(hotel_coords, valid_places(places)), num_days))
    /\ pc' = "Aborted"
    /\ UNCHANGED <<inputs, min_cost, solution, converged, days>>
    /\ UNCHANGED <<scorer, intake, trip>>

\* solver.py:454-465: SolveWithParameters hands back an assignment that
\* meets the constraints: the best one when the search has converged, any
\* one when the time limit cut the search short.  The limit is passed on as
\* it is, so the outcome is left open for every value of it.
SolveFound ==
    /\ pc = "Modeled"
    /\ \E sol \in FeasibleSolutions(Val(data)) :
          /\ solution' = Some(sol)
          /\ converged' = (Cost(Val(data), sol) = Val(min_cost))
    /\ pc' = "Solved"
    /\ UNCHANGED <<inputs, data, min_cost, days>>
    /\ UNCHANGED <<scorer, intake, trip>>

\* solver.py:465: no assignment within the time limit.
SolveNone ==
    /\ pc = "Modeled"
    /\ pc' = "Infeasible"
    /\ UNCHANGED <<inputs, data, min_cost, solution, converged, days>>
    /\ UNCHANGED <<scorer, intake, trip>>

\* solver.py:468-469.
ExtractSolution ==
    /\ pc = "Solved"
    /\ days' = Some(extract_solution(Val(data), valid_indices(places), Val(solution)))
    /\ pc' = "Returned"
    /\ UNCHANGED <<inputs, data, min_cost, solution, converged>>
    /\ UNCHANGED <<scorer, intake, trip>>

\* Mutant: an unsolved model is handed to the search again.
ReturnEmptyDays_retry ==
    /\ pc = "Infeasible"
    /\ pc' = "Modeled"
    /\ UNCHANGED <<inputs, data, min_cost, solution, converged, days>>
    /\ UNCHANGED <<scorer, intake, trip>>

\* solver.py:470-473.
ReturnEmptyDays ==
    /\ pc = "Infeasible"
    /\ days' = Some(EmptyDays(num_days))
    /\ pc' = "Returned"
    /\ UNCHANGED <<inputs, data, min_cost, solution, converged>>
    /\ UNCHANGED <<scorer, intake, trip>>

Next ==
    \/ ReturnNoPlaces
    \/ BuildModel
    \/ AbortNoVehicles
    \/ SolveFound
    \/ SolveNone
    \/ ExtractSolution
    \/ ReturnEmptyDays

Spec == Init /\ [][Next]_vars

(***************************************************************************)
(* Properties of the router.                                               *)
(***************************************************************************)
Returned == pc = "Returned"
Result == Val(days)

\* Every stop of the returned routes, as <<day, position>>.
Stops == {<<v, k>> \in (1..Len(Result)) \X (1..MaxPlaces + 1) :
             k <= Len(Result[v].items)}
ItemAt(st) == Result[st[1]].items[st[2]]

\* The place dict of solve's input list an item was built from.
InputPlace(item) == places[item.place_index]

\* C2: every stop's visit starts inside the place's time window: arrival_time
\* lies in [earliest, latest] of get_time_window.
C2_ArrivalInsideWindow ==
    Returned =>
        \A st \in Stops :
            LET w == get_time_window(InputPlace(ItemAt(st)), 1)
            IN  w[1] <= ItemAt(st).arrival_time /\ ItemAt(st).arrival_time <= w[2]

\* C3: across the day routes of one solve call no place appears twice; each
\* input place with coordinates is on exactly one day's list or on none.
C3_NoPlaceTwice ==
    Returned =>
        /\ \A s1 \in Stops : \A s2 \in Stops :
              ItemAt(s1).place_index = ItemAt(s2).place_index => s1 = s2
        /\ \A st \in Stops :
              /\ ItemAt(st).place_index \in 1..Len(places)
              /\ InputPlace(ItemAt(st)).lat # None
              /\ InputPlace(ItemAt(st)).lng # None

C3_TwoDaysUsed ==
    /\ Returned
    /\ Len(Result) = 2
    /\ Len(Result[1].items) = 1
    /\ Len(Result[2].items) = 1

C5_ExactlyNDays ==
    num_days >= 1 =>
        /\ pc # "Aborted"
        /\ Returned =>
              /\ Len(Result) = num_days
              /\ \A i \in 1..num_days : Result[i].day_number = i
              /\ solution = None => \A i \in 1..num_days : Result[i].items = <<>>
        /\ pc = "Infeasible" => solution = None

C5_InfeasibleReturned ==
    /\ Returned
    /\ num_days = 2
    /\ data # None
    /\ solution = None
    /\ Len(Result) = 2

\* C6: one day and a single place of positive score that fits (a feasible
\* route visits it) is always on the returned route.
SinglePlaceFits ==
    /\ Len(places) = 1
    /\ num_days = 1
    /\ places[1].lat # None /\ places[1].lng # None
    /\ places[1].score # None /\ Val(places[1].score) > 0
    /\ data # None
    /\ \E plan \in VehiclePlans(Val(data), {1}) : plan.route = <<1>>

C6_SingleFittingPlaceIncluded ==
    (Returned /\ SinglePlaceFits /\ solution # None /\ converged) =>
        Len(Result[1].items) = 1

\* C8: with an empty place list, or no place with both lat and lng, every
\* one of the num_days routes has no stop and zero totals.
NoPlaceWithCoords ==
    \A i \in 1..Len(places) : places[i].lat = None \/ places[i].lng = None

C8_EmptyRoutes ==
    (Returned /\ NoPlaceWithCoords) =>
        /\ Len(Result) = Max2(num_days, 0)
        /\ \A i \in 1..Len(Result) :
              /\ Result[i].items = <<>>
              /\ Result[i].total_travel_time = 0
              /\ Result[i].total_visit_time = 0
              /\ Result[i].total_score = 0

C8_CoordlessPlacesReturned ==
    /\ Returned
    /\ Len(places) = 2
    /\ NoPlaceWithCoords
    /\ places[1].lat # None
    /\ num_days = 2
    /\ Len(Result) = 2

\* C9: every place with lat and lng is a routing node at exactly its own
\* (lat, lng), 0 included; places lacking one are left out of the model;
\* no node gets substitute coordinates.
C9_NodesAtOwnCoordinates ==
    (pc \in {"Modeled", "Solved", "Returned"} /\ data # None) =>
        /\ Val(data).places = valid_places(places)
        /\ \A node \in PlaceNodes(Val(data)) :
              LET place == Val(data).places[node]
              IN  /\ place.lat # None /\ place.lng # None
                  /\ RatEq(Val(data).locations[node].lat, Loc(Val(place.lat), 1))
                  /\ RatEq(Val(data).locations[node].lng, Loc(Val(place.lng), 1))

\* C10: a call with num_days <= 0 or time_limit_seconds <= 0 is rejected:
\* it never gets as far as a routing model or a result.
C10_BadArgumentsRejected ==
    (num_days <= 0 \/ time_limit_seconds <= 0) => pc \in {"Unsolved", "Aborted"}

(***************************************************************************)
(* C7: one day, a fixed origin, and a place list compared with its         *)
(* sub-lists.                                                              *)
(***************************************************************************)
GrowChoices ==
    {Place(Some(x), Some(MeridianLng), Some("brunch"), Some(sc), None) :
        x \in {1, 26}, sc \in {5000, 9000}}

InitGrow ==
    /\ places \in SeqsUpTo(GrowChoices, MaxPlaces)
    /\ hotel_coords = Some(<<1, MeridianLng>>)
    /\ num_days \in {0, 1}
    /\ time_limit_seconds \in {0, DEFAULT_TIME_LIMIT}
    /\ Idle
    /\ NoTrip
    /\ NoIntake
    /\ Unranked

SpecGrow == InitGrow /\ [][Next]_vars

\* The sub-list of ps at the indices of S, in order.
SubList(ps, S) ==
    LET idx == SelectSeqIdx([i \in 1..Len(ps) |-> IF i \in S THEN 1 ELSE 0], {1})
    IN  [k \in 1..Len(idx) |-> ps[idx[k]]]

\* The routing model of the sub-list at S, for the same origin and one day.
SubModel(S) ==
    create_data_model(valid_places(SubList(places, S)),
                      hotel_of(hotel_coords, valid_places(SubList(places, S))), 1)

BestSolutions(d) ==
    LET sols == FeasibleSolutions(d)
        best == MinOf({Cost(d, s) : s \in sols})
    IN  {s \in sols : Cost(d, s) = best}

OneDayConverged ==
    /\ Returned
    /\ num_days = 1
    /\ solution # None
    /\ converged

DISTANCE_DECAY_RATE == 5
MIN_SCORE_THRESHOLD == 40

OUTDOOR_TYPES ==
    {"park", "zoo", "amusement_park", "campground", "stadium", "natural_feature",
     "hiking_area", "beach", "garden", "nature", "outdoor"}

BAD_WEATHER_CONDITIONS == {"Rain", "Drizzle", "Thunderstorm", "Snow"}

\* str.strip() on the condition strings the model uses.
Strip(c) == IF c = " Snow " THEN "Snow" ELSE c

\* One point, and the multiplier 1.0, in millionths.
Million == 10 ^ 6

\* a * b for two multipliers in millionths, rounded to the nearest millionth
\* (split so that no intermediate value leaves 32 bits).
MulMillionths(a, b) ==
    ((a \div 1000) * b + ((a % 1000) * b + 500000) \div 1000) \div 1000

\* math.exp(-0.01 * km) for a distance of 2^(k-1) twelfths of a latitude
\* step (1.0007543 km), in millionths, k = 1..14.
ExpOfPowerOfTwo ==
    <<999166, 998333, 996670, 993351, 986745, 973666, 948026, 898753, 807757,
      652471, 425718, 181236, 32847, 1079>>

RECURSIVE ExpBits(_, _)
\* math.exp(-0.01 * t twelfths of a step): the product of the table's
\* entries at the binary digits of t, from digit k on (0 beyond the table).
ExpBits(t, k) ==
    IF t = 0 THEN Million
    ELSE IF k > Len(ExpOfPowerOfTwo) THEN 0
    ELSE IF t % 2 = 1
         THEN MulMillionths(ExpBits(t \div 2, k + 1), ExpOfPowerOfTwo[k])
         ELSE ExpBits(t \div 2, k + 1)

\* The haversine distance of two latitudes, in twelfths of a step.
haversine_distance(a, b) ==
    (Abs(a.n * b.d - b.n * a.d) * 12) \div (a.d * b.d)

\* 60.0 without a rating, else the rating clamped to 0..5 stars, times 20.
calculate_base_score(rating) ==
    IF rating = None THEN 60
    ELSE Max2(0, Min2(50, Val(rating))) * 2

\* In millionths.
calculate_distance_multiplier(place_lat, place_lng, centroid_lat) ==
    IF place_lat = None \/ place_lng = None THEN Million \div 2
    ELSE ExpBits(DISTANCE_DECAY_RATE
                    * haversine_distance(Loc(Val(place_lat), 1), centroid_lat), 1)

(***************************************************************************)
(* A key of an input dict is missing, present with the value None, or      *)
(* present with a value; dict.get(key, default) yields the default only    *)
(* for a missing key, and Python's None for a key that holds None.         *)
(***************************************************************************)
Missing == None
Null == Some(None)
Given(v) == Some(Some(v))
Get(o, default) == IF o = None THEN Some(default) ELSE Val(o)

\* place_types + [place_category]; an entry is None where the value is None.
type_items(place_types, place_category) ==
    [i \in 1..(Len(Val(place_types)) + 1) |->
        IF i <= Len(Val(place_types)) THEN Some(Val(place_types)[i])
        ELSE place_category]

\* t.lower() in OUTDOOR_TYPES, for an entry that is a string.
IsOutdoorItem(item) == item # None /\ Lower(Val(item)) \in OUTDOOR_TYPES

\* any(...) stops at the first outdoor entry; t.lower() raises on an entry
\* that is None when any() gets as far as that entry.
any_outdoor_raises(items) ==
    \E i \in 1..Len(items) :
        /\ items[i] = None
        /\ \A j \in 1..(i - 1) : ~IsOutdoorItem(items[j])

any_outdoor(items) == \E i \in 1..Len(items) : IsOutdoorItem(items[i])

\* The call raises: None + list, None.lower(), None.strip() or None < 5.0.
weather_multiplier_raises(place_types, place_category, w) ==
    IF w = None THEN FALSE
    ELSE IF place_types = None THEN TRUE
    ELSE IF any_outdoor_raises(type_items(place_types, place_category)) THEN TRUE
    ELSE IF ~any_outdoor(type_items(place_types, place_category)) THEN FALSE
    ELSE Get(Val(w).main, "") = None \/ Get(Val(w).temp, 20) = None

\* Mutant: the penalty for bad conditions is left out (cold only).
weather_multiplier_cold_only(place_types, place_category, w) ==
    IF w = None THEN 20
    ELSE IF ~any_outdoor(type_items(place_types, place_category)) THEN 20
    ELSE IF Val(Get(Val(w).temp, 20)) < 5 THEN 10
    ELSE 20

\* Mutant: the penalties fall on every place, outdoor or not.
weather_multiplier_indoor_too(place_types, place_category, w) ==
    IF w = None THEN 20
    ELSE IF Strip(Val(Get(Val(w).main, ""))) \in BAD_WEATHER_CONDITIONS THEN 6
    ELSE IF Val(Get(Val(w).temp, 20)) < 5 THEN 10
    ELSE 20

\* In twentieths: 1.0, 0.5, 0.3 and 0.3 * 0.5.  Defined where the call does
\* not raise.
calculate_weather_multiplier(place_types, place_category, w) ==
    LET is_outdoor == any_outdoor(type_items(place_types, place_category))
        main_condition == Strip(Val(Get(Val(w).main, "")))
        temp_celsius == Val(Get(Val(w).temp, 20))
        bad == main_condition \in BAD_WEATHER_CONDITIONS
        cold == temp_celsius < 5
    IN  IF w = None THEN 20
        ELSE IF ~is_outdoor THEN 20
        ELSE IF bad /\ cold THEN 3
        ELSE IF bad THEN 6
        ELSE IF cold THEN 10
        ELSE 20

calculate_social_proof_bonus(user_ratings_total) ==
    IF user_ratings_total = None THEN 0
    ELSE IF Val(user_ratings_total) >= 1000 THEN 10
    ELSE IF Val(user_ratings_total) >= 100 THEN 5
    ELSE 0

calculate_score_raises(place, w) ==
    weather_multiplier_raises(place.types, place.category, w)

\* Mutant: the multipliers fall on the bonus as well.
calculate_score_bonus_decayed(place, w, centroid_lat) ==
    (((calculate_base_score(place.rating)
           + calculate_social_proof_bonus(place.user_ratings_total))
         * calculate_distance_multiplier(place.lat, place.lng, centroid_lat))
        \div 20)
    * calculate_weather_multiplier(place.types, place.category, w)

\* (base_score * distance_mult * weather_mult) + social_bonus, in millionths
\* of a point.
calculate_score(place, w, centroid_lat) ==
    (calculate_base_score(place.rating)
        * calculate_distance_multiplier(place.lat, place.lng, centroid_lat)
        * calculate_weather_multiplier(place.types, place.category, w)) \div 20
    + calculate_social_proof_bonus(place.user_ratings_total) * Million

\* CandidatePlace.from_dict: missing types are [], a missing category is "",
\* the score 0.0.
from_dict(p) ==
    [name |-> p.name, lat |-> p.lat, lng |-> p.lng,
     types |-> Get(p.types, <<>>), rating |-> p.rating,
     user_ratings_total |-> p.user_ratings_total,
     category |-> Get(p.category, ""), score |-> 0]

\* round(score, 2), in hundredths of a point.
Round2(score) == (score + 5000) \div 10000

\* CandidatePlace.to_dict.
to_dict(c) == [c EXCEPT !.score = Round2(c.score)]

\* The latitude of the centroid rank_places scores against.
centroid_lat_of(cs, c_arg) ==
    IF c_arg = None
    THEN LET valid == valid_places(cs)
         IN  IF valid # <<>> THEN centroid(valid).lat ELSE Loc(0, 1)
    ELSE Loc(GetOr(Val(c_arg).lat, 0), 1)

RECURSIVE SortDescending_unstable(_)
\* Mutant: a descending sort that reverses equal scores.
SortDescending_unstable(s) ==
    IF s = <<>> THEN <<>>
    ELSE LET rest == SortDescending_unstable(Tail(s))
             before == SelectSeq(rest, LAMBDA c : c.score >= s[1].score)
             after == SelectSeq(rest, LAMBDA c : c.score < s[1].score)
         IN  before \o <<s[1]>> \o after

RECURSIVE SortDescending(_)
\* list.sort(key=score, reverse=True): stable, so equal scores keep their
\* order.
SortDescending(s) ==
    IF s = <<>> THEN <<>>
    ELSE LET rest == SortDescending(Tail(s))
             before == SelectSeq(rest, LAMBDA c : c.score > s[1].score)
             after == SelectSeq(rest, LAMBDA c : c.score <= s[1].score)
         IN  before \o <<s[1]>> \o after

\* Mutant: every candidate qualifies.
qualified_all(scored) == scored

\* [c for c in candidates if c.score >= MIN_SCORE_THRESHOLD]
qualified_of(scored) ==
    SelectSeq(scored, LAMBDA c : c.score >= MIN_SCORE_THRESHOLD * Million)

\* The call raises when scoring one of the candidates does.
rank_places_raises(ps, w, c_arg) ==
    \E i \in 1..Len(ps) : calculate_score_raises(from_dict(ps[i]), w)

\* UtilityScorer.rank_places (scoring.py:349-409), where it does not raise.
rank_places(ps, w, c_arg) ==
    IF ps = <<>> THEN <<>>
    ELSE LET cs == [i \in 1..Len(ps) |-> from_dict(ps[i])]
             centroid_lat == centroid_lat_of(cs, c_arg)
             scored == [i \in 1..Len(cs) |->
                           [cs[i] EXCEPT !.score = calculate_score(cs[i], w, centroid_lat)]]
             sorted == SortDescending(qualified_of(scored))
         IN  [i \in 1..Len(sorted) |-> to_dict(sorted[i])]

(***************************************************************************)
(* Inputs of a rank_places call.                                           *)
(***************************************************************************)
Candidate(lat, lng, types, rating, user_ratings_total, category) ==
    [name |-> "", lat |-> lat, lng |-> lng, types |-> types, rating |-> rating,
     user_ratings_total |-> user_ratings_total, category |-> category]

\* The i-th place of a list is named after its position.
NameOf(i) == <<"a", "b", "c", "d", "e">>[i]
Named(ps) == [i \in 1..Len(ps) |-> [ps[i] EXCEPT !.name = NameOf(i)]]

\* <<types, rating, user_ratings_total, category>>
Qualities ==
    {<<Given(<<>>), None, None, Given("museum")>>,
     <<Given(<<"Park">>), Some(50), Some(1000), Missing>>,
     <<Missing, Some(20), Some(100), Given("nature")>>}

CandidateCoords ==
    {<<Some(1), None>>}
    \cup {<<Some(x), Some(MeridianLng)>> : x \in {0, 1, MaxLat}}

CandidateChoices ==
    {Candidate(c[1], c[2], q[1], q[2], q[3], q[4]) :
        c \in CandidateCoords, q \in Qualities}

WeatherChoices ==
    {None,
     Some([main |-> Given("Rain"), temp |-> Given(10)]),
     Some([main |-> Given(" Snow "), temp |-> Given(0)]),
     Some([main |-> Missing, temp |-> Missing])}

CentroidChoices ==
    {None,
     Some([lat |-> Some(1), lng |-> Some(MeridianLng)]),
     Some([lat |-> None, lng |-> Some(MeridianLng)])}

InitScore ==
    /\ candidates \in {Named(ps) : ps \in SeqsUpTo(CandidateChoices, MaxCandidates)}
    /\ weather \in WeatherChoices
    /\ centroid_arg \in CentroidChoices
    /\ NotCalled
    /\ places = <<>>
    /\ hotel_coords = None
    /\ num_days = 1
    /\ time_limit_seconds = DEFAULT_TIME_LIMIT
    /\ Idle
    /\ NoTrip
    /\ NoIntake

\* Mutant: the call writes the score into the caller's place dicts.
input_scored_in_place(ps) ==
    [i \in 1..Len(ps) |->
        [k \in DOMAIN ps[i] \cup {"score"} |-> IF k = "score" THEN 0 ELSE ps[i][k]]]

\* The caller's list after a call: from_dict copies each dict's values
\* (scoring.py:378), the filter builds a new list (403) which is the one
\* sorted (406), and to_dict builds new dicts (409).
input_after_call(ps) == ps

\* Mutant: the call keeps the centroid on the scorer.
attrs_with_centroid(attrs) == attrs \cup {"centroid"}

\* The scorer's own attributes after a call: no method assigns to self, and
\* the module-level rank_places makes a new UtilityScorer for each call
\* (scoring.py:428).
attrs_after_call(attrs) == attrs

\* One call of rank_places: it returns a list or it raises.
RankPlaces ==
    /\ rank_pc = "Unranked"
    /\ IF rank_places_raises(candidates, weather, centroid_arg)
       THEN /\ ranked' = None
            /\ rank_pc' = "Raised"
       ELSE /\ ranked' = Some(rank_places(candidates, weather, centroid_arg))
            /\ rank_pc' = "Ranked"
    /\ candidates' = input_after_call(candidates)
    /\ scorer_attrs' = attrs_after_call(scorer_attrs)
    /\ UNCHANGED <<weather, centroid_arg, ranked_again>>
    /\ UNCHANGED <<router, intake, trip>>

\* A second call with the arguments of the first.
RankPlacesAgain ==
    /\ rank_pc = "Ranked"
    /\ ~rank_places_raises(candidates, weather, centroid_arg)
    /\ ranked_again' = Some(rank_places(candidates, weather, centroid_arg))
    /\ rank_pc' = "RankedTwice"
    /\ candidates' = input_after_call(candidates)
    /\ scorer_attrs' = attrs_after_call(scorer_attrs)
    /\ UNCHANGED <<weather, centroid_arg, ranked>>
    /\ UNCHANGED <<router, intake, trip>>

NextScore ==
    \/ RankPlaces
    \/ RankPlacesAgain

SpecScore == InitScore /\ [][NextScore]_vars

(***************************************************************************)
(* Properties of the scorer.                                               *)
(***************************************************************************)
Ranked == rank_pc \in {"Ranked", "RankedTwice"}
Ranking == Val(ranked)

\* C1: every place rank_places returns has score >= 40.0 (4000 hundredths)
\* and the returned list is ordered by score, non-increasing.
C1_QualifiedAndSorted ==
    Ranked =>
        /\ \A i \in 1..Len(Ranking) : Ranking[i].score >= 4000
        /\ \A i \in 1..Len(Ranking) : \A j \in 1..Len(Ranking) :
              i < j => Ranking[i].score >= Ranking[j].score

\* A call that dropped one of three candidates and reordered the other two.
C1_FilteredAndReordered ==
    /\ Ranked
    /\ Len(candidates) = 3
    /\ Len(Ranking) = 2
    /\ Ranking[1].score > Ranking[2].score
    /\ Ranking[1].rating = candidates[3].rating
    /\ Ranking[2].rating = candidates[1].rating
    /\ candidates[1].rating # candidates[3].rating

(***************************************************************************)
(* C11: place and weather records with missing and with null values.       *)
(***************************************************************************)
NullCandidateChoices ==
    {Candidate(Some(1), Some(MeridianLng), t, None, None, c) :
        t \in {Missing, Null, Given(<<"Park">>)},
        c \in {Missing, Null, Given("museum")}}

NullWeatherChoices ==
    {None,
     Some([main |-> Given("Rain"), temp |-> Given(10)]),
     Some([main |-> Null, temp |-> Given(10)]),
     Some([main |-> Given("Rain"), temp |-> Null]),
     Some([main |-> Missing, temp |-> Missing])}

InitNull ==
    /\ candidates \in {Named(ps) : ps \in SeqsUpTo(NullCandidateChoices, MaxCandidates)}
    /\ weather \in NullWeatherChoices
    /\ centroid_arg = None
    /\ NotCalled
    /\ places = <<>>
    /\ hotel_coords = None
    /\ num_days = 1
    /\ time_limit_seconds = DEFAULT_TIME_LIMIT
    /\ Idle
    /\ NoTrip
    /\ NoIntake

SpecNull == InitNull /\ [][NextScore]_vars

\* C11: rank_places never raises, whichever of a place's types and category
\* and of the weather's condition and temperature are missing or null.
C11_NeverRaises == rank_pc # "Raised"

(***************************************************************************)
(* C12, C13: ratings from 0 up, with and without reviews, one step (1 km)  *)
(* from a given centroid or at it, in rain and in clear weather.           *)
(***************************************************************************)
RainWeather == Some([main |-> Given("Rain"), temp |-> Given(10)])
ClearWeather == Some([main |-> Given("Clear"), temp |-> Given(20)])

RatingChoices ==
    {Candidate(Some(x), Some(MeridianLng), k[1], r, Some(1500), k[2]) :
        x \in {0, 1},
        k \in {<<Given(<<"Park">>), Missing>>, <<Missing, Given("nature")>>,
               <<Given(<<>>), Given("museum")>>},
        r \in {None, Some(0), Some(45)}}

InitRatings ==
    /\ candidates \in {Named(ps) : ps \in SeqsUpTo(RatingChoices, MaxPlaces)}
    /\ weather \in {None, RainWeather, ClearWeather}
    /\ centroid_arg \in {None, Some([lat |-> Some(1), lng |-> Some(MeridianLng)])}
    /\ NotCalled
    /\ places = <<>>
    /\ hotel_coords = None
    /\ num_days = 1
    /\ time_limit_seconds = DEFAULT_TIME_LIMIT
    /\ Idle
    /\ NoTrip
    /\ NoIntake

SpecRatings == InitRatings /\ [][NextScore]_vars

\* The unrounded score of the i-th candidate of the call under weather w.
ScoreUnder(i, w) ==
    calculate_score(from_dict(candidates[i]), w,
        centroid_lat_of([k \in 1..Len(candidates) |-> from_dict(candidates[k])],
                        centroid_arg))

IsOutdoorCandidate(i) ==
    any_outdoor(type_items(from_dict(candidates[i]).types,
                           from_dict(candidates[i]).category))

C13_ScoreAtOneKm ==
    (/\ Ranked
     /\ weather = ClearWeather
     /\ centroid_arg # None
     /\ Len(candidates) = 1
     /\ candidates[1].lat = Some(0)
     /\ candidates[1].rating = Some(45))
        => /\ Len(Ranking) = 1
           /\ Ranking[1].score >= 8746 - 5
           /\ Ranking[1].score <= 8746 + 5

\* -------------------------------------------------------------------------
\* C14: stability of the descending sort (SpecScore).

\* Position in the input of the returned record with this name.
InputIndex(name) == CHOOSE k \in 1..Len(candidates) : candidates[k].name = name

WindowCategories ==
    {None, Some("Museum")} \cup {Some(c) : c \in DOMAIN CATEGORY_TIME_WINDOWS}

\* opening_hours["by_day"]: none, a day shift, a late evening, and hours of
\* another weekday only.
WindowHours ==
    {None,
     Some([d \in {1} |-> [open |-> 600, close |-> 1080]]),
     Some([d \in {1} |-> [open |-> 1290, close |-> 1439]]),
     Some([d \in {2} |-> [open |-> 1290, close |-> 1439]])}

WindowPlaces ==
    {Place(lat, Some(MeridianLng), c, Some(5000), h) :
        lat \in {None, Some(1)}, c \in WindowCategories, h \in WindowHours}

InitWindow ==
    /\ places \in {<<p>> : p \in WindowPlaces}
    /\ hotel_coords \in HotelChoices
    /\ num_days \in {0, 1}
    /\ time_limit_seconds = DEFAULT_TIME_LIMIT
    /\ Idle
    /\ NoTrip
    /\ NoIntake
    /\ Unranked

SpecWindow == InitWindow /\ [][Next]_vars

\* The window create_data_model asked for, for the i-th routed place.
WindowOf(i) == get_time_window(Val(data).places[i], 1)

\* C15: once the data model is built, the window of every routed place
\* satisfies 540 <= earliest <= latest <= 1320 - visit_duration.
C15_WindowClamped ==
    data # None =>
        \A i \in 1..Len(Val(data).places) :
            /\ DAY_START_TIME <= WindowOf(i)[1]
            /\ WindowOf(i)[1] <= WindowOf(i)[2]
            /\ WindowOf(i)[2] <= DAY_END_TIME
                   - get_visit_duration(GetOr(Val(data).places[i].category, ""))

\* -------------------------------------------------------------------------
\* C16 and C17: what a call leaves behind (SpecRatings).

Routable == valid_places(places) # <<>>

\* solver.py:387-402: with a place to route, the call goes on to build the
\* routing model (BuildModel or AbortNoVehicles).
StartsRouting ==
    /\ pc = "Unsolved"
    /\ Routable
    /\ pc' \in {"Modeled", "Aborted"}

Fairness ==
    /\ WF_vars(ReturnNoPlaces)
    /\ WF_pc(StartsRouting)
    /\ WF_vars(SolveFound \/ SolveNone)
    /\ WF_vars(ExtractSolution)
    /\ WF_vars(ReturnEmptyDays)

SpecLive == InitGrow /\ [][Next]_vars /\ Fairness

travel_time(from_node, to_node) == Val(data).time_matrix[from_node][to_node]

\* C19: the stops of a day are in the order the route visits them, each
\* leaves duration minutes after it arrives, and each arrives no earlier
\* than the departure from the stop before it plus the travel between them.
C19_StopsInOrderWithoutOverlap ==
    Returned =>
        \A v \in 1..Len(Result) :
            LET items == Result[v].items
            IN  /\ \A k \in 1..Len(items) :
                       /\ items[k].node = Val(solution)[v].route[k]
                       /\ items[k].departure_time
                              = items[k].arrival_time + items[k].duration
                /\ \A k \in 1..(Len(items) - 1) :
                       items[k + 1].arrival_time
                           >= items[k].departure_time
                                  + travel_time(items[k].node, items[k + 1].node)

\* A day with two stops at different places, the later input first.
C19_TwoStopsApart ==
    /\ Returned
    /\ \E v \in 1..Len(Result) :
          /\ Len(Result[v].items) = 2
          /\ Result[v].items[1].node = 2
          /\ travel_time(2, 1) > TRAVEL_BUFFER
          /\ Result[v].items[2].arrival_time > Result[v].items[1].departure_time

\* The nodes of a day's route with the base at both ends.
RoundTrip(v) ==
    <<0>> \o [k \in 1..Len(Result[v].items) |-> Result[v].items[k].node] \o <<0>>

\* C20: a day's total_travel_time is the sum of the time-matrix entries of
\* all its hops, from the base to the first stop, between consecutive stops
\* and from the last stop back to the base; it is zero for a day without
\* stops.
C20_TravelCountsEveryHop ==
    Returned =>
        \A v \in 1..Len(Result) :
            Result[v].total_travel_time =
                IF Result[v].items = <<>> THEN 0
                ELSE SumSeq([k \in 1..(Len(RoundTrip(v)) - 1) |->
                                travel_time(RoundTrip(v)[k], RoundTrip(v)[k + 1])])

\* -------------------------------------------------------------------------
\* C21: the weekday of the opening hours behind a routed place's window
\* (SpecWindow).  solve takes no date, so a trip day may fall on any weekday.

Weekdays == 0..6

\* The window of the routing model, in minutes from the day start, that
\* get_time_window gives the i-th routed place for weekday wd.
WindowOn(i, wd) ==
    <<Max2(0, get_time_window(Val(data).places[i], wd)[1] - DAY_START_TIME),
      Min2(MAX_DAY_DURATION,
           get_time_window(Val(data).places[i], wd)[2] - DAY_START_TIME)>>

\* C21: for every weekday a trip day can fall on and every routed place
\* whose opening hours are known for that weekday, the window in the
\* routing model is the one derived from that weekday's hours.
C21_WindowOfTripWeekday ==
    data # None =>
        \A i \in 1..Len(Val(data).places), wd \in Weekdays :
            (/\ Val(data).places[i].opening_hours # None
             /\ wd \in DOMAIN Val(Val(data).places[i].opening_hours))
                => Val(data).time_windows[i] = WindowOn(i, wd)

\* -------------------------------------------------------------------------
\* C22..C24: the factors of a score (SpecScore).

\* The weather multiplier the call computed for the i-th candidate, in
\* twentieths.
WeatherMultiplierOf(i) ==
    calculate_weather_multiplier(from_dict(candidates[i]).types,
                                 from_dict(candidates[i]).category, weather)

\* C22: the weather multiplier of every scored place lies between 0.3 and
\* 1.0 inclusive.
C22_MultiplierInRange ==
    Ranked =>
        \A i \in 1..Len(candidates) :
            6 <= WeatherMultiplierOf(i) /\ WeatherMultiplierOf(i) <= 20

\* C23: the score of a candidate that is not outdoor is the same under
\* every weather record and without one, the other arguments unchanged.
C23_IndoorScoreIgnoresWeather ==
    Ranked =>
        \A i \in 1..Len(candidates) :
            ~IsOutdoorCandidate(i) =>
                \A w \in WeatherChoices \cup {weather} :
                    ScoreUnder(i, w) = ScoreUnder(i, None)

\* One call in bad weather scored a place that is not outdoor next to an
\* outdoor one that lost points to the weather.
C23_IndoorBesideOutdoor ==
    /\ Ranked
    /\ weather # None
    /\ \E i, j \in 1..Len(candidates) :
          /\ ~IsOutdoorCandidate(i)
          /\ ScoreUnder(i, weather) > 0
          /\ IsOutdoorCandidate(j)
          /\ ScoreUnder(j, weather) < ScoreUnder(j, None)

\* The review bonus of the i-th candidate, in points.
BonusOf(i) ==
    calculate_social_proof_bonus(from_dict(candidates[i]).user_ratings_total)

\* C24: every computed score lies between the place's review bonus and 100
\* points above it, the bonus being 0, 5 or 10 points.
C24_ScoreBetweenBonusAndHundredMore ==
    Ranked =>
        \A i \in 1..Len(candidates) :
            /\ BonusOf(i) \in {0, 5, 10}
            /\ BonusOf(i) * Million <= ScoreUnder(i, weather)
            /\ ScoreUnder(i, weather) <= (100 + BonusOf(i)) * Million

\* A well-reviewed outdoor place lost most of its rating-derived points to
\* the weather and kept its bonus.
C24_BonusSurvivesPenalty ==
    /\ Ranked
    /\ \E i \in 1..Len(candidates) :
          /\ BonusOf(i) = 10
          /\ WeatherMultiplierOf(i) < 20
          /\ ScoreUnder(i, weather) < ScoreUnder(i, None)
          /\ ScoreUnder(i, weather) < 2 * BonusOf(i) * Million

(***************************************************************************)
(* parse_opening_hours (places_api.py:17-68).  regularOpeningHours is      *)
(* absent or a list of periods; a period has an open point and may lack a  *)
(* close point.  The result is the by_day table, the one part of it the    *)
(* router reads; weekday_text and the copied periods are left out.         *)
(***************************************************************************)
MaxPeriods == 3

Point(day, hour, minute) == [day |-> day, hour |-> hour, minute |-> minute]

\* places_api.py:41-47 and 55-56: the close point defaults to 23:59 of the
\* opening day; the minutes are hour * 60 + minute whatever the close day.
open_minutes(period) == period.open.hour * 60 + period.open.minute

close_minutes(period) ==
    IF period.close = None THEN 23 * 60 + 59
    ELSE Val(period.close).hour * 60 + Val(period.close).minute

\* places_api.py:58-66: one more period put into the table.
by_day_with(by_day, period) ==
    [d \in DOMAIN by_day \cup {period.open.day} |->
        IF d # period.open.day THEN by_day[d]
        ELSE IF d \notin DOMAIN by_day
        THEN [open |-> open_minutes(period), close |-> close_minutes(period)]
        ELSE [open |-> Min2(by_day[d].open, open_minutes(period)),
              close |-> Max2(by_day[d].close, close_minutes(period))]]

RECURSIVE by_day_of(_)
\* The loop over the periods, in the order of the input.
by_day_of(periods) ==
    IF periods = <<>> THEN <<>>
    ELSE by_day_with(by_day_of(SubSeq(periods, 1, Len(periods) - 1)),
                     periods[Len(periods)])

parse_opening_hours(hours) ==
    IF hours = None THEN None ELSE Some(by_day_of(Val(hours)))

\* A day shift, an evening that ends the same day, an evening that ends
\* after midnight, and a period without a close point.
PeriodChoices ==
    {[open |-> Point(d, 9, 0), close |-> Some(Point(d, 17, 30))] : d \in {5, 6}}
    \cup {[open |-> Point(d, 18, 30), close |-> Some(Point(d, 23, 0))] : d \in {5, 6}}
    \cup {[open |-> Point(d, 18, 0), close |-> Some(Point((d + 1) % 7, 2, 0))] :
             d \in {5, 6}}
    \cup {[open |-> Point(d, 0, 0), close |-> None] : d \in {5, 6}}

InitHours ==
    /\ regular_hours \in {None} \cup {Some(ps) : ps \in SeqsUpTo(PeriodChoices, MaxPeriods)}
    /\ parse_pc = "Unparsed"
    /\ parsed = None
    /\ NoEnrichment
    /\ places = <<>>
    /\ hotel_coords = None
    /\ num_days = 1
    /\ time_limit_seconds = DEFAULT_TIME_LIMIT
    /\ Idle
    /\ NoTrip
    /\ Unranked

ParseOpeningHours ==
    /\ parse_pc = "Unparsed"
    /\ parsed' = parse_opening_hours(regular_hours)
    /\ parse_pc' = "Parsed"
    /\ UNCHANGED <<regular_hours, enrichment>>
    /\ UNCHANGED <<router, scorer, trip>>

NextHours == ParseOpeningHours

SpecHours == InitHours /\ [][NextHours]_vars

\* -------------------------------------------------------------------------
\* C25: the envelope of a weekday's periods (SpecHours).

\* The periods of the input that open on a day.
OpeningOn(day) ==
    {k \in 1..Len(Val(regular_hours)) : Val(regular_hours)[k].open.day = day}

\* C25: for every weekday on which a period opens, the table has the least
\* open minute and the greatest close minute of those periods, and
\* open <= close.
C25_EnvelopePerDay ==
    (parse_pc = "Parsed" /\ regular_hours # None) =>
        \A day \in Weekdays :
            OpeningOn(day) # {} =>
                /\ day \in DOMAIN Val(parsed)
                /\ \A k \in OpeningOn(day) :
                       /\ Val(parsed)[day].open <= open_minutes(Val(regular_hours)[k])
                       /\ Val(parsed)[day].close >= close_minutes(Val(regular_hours)[k])
                /\ \E k \in OpeningOn(day) :
                       Val(parsed)[day].open = open_minutes(Val(regular_hours)[k])
                /\ \E k \in OpeningOn(day) :
                       Val(parsed)[day].close = close_minutes(Val(regular_hours)[k])
                /\ Val(parsed)[day].open <= Val(parsed)[day].close

(***************************************************************************)
(* generate_trip (main.py:44-164): one request through the pipeline.  The  *)
(* candidate generator, the place lookups and the weather service are      *)
(* outside the program; what they hand back is chosen freely, and any step *)
(* may raise.  Dates are day numbers, None a string strptime rejects.      *)
(***************************************************************************)
\* main.py:60-65.
trip_num_days(start, end) ==
    IF start = None \/ end = None THEN 3
    ELSE Max2(1, Val(end) - Val(start) + 1)

\* The dict the router gets for a ranked place: to_dict's keys
\* (scoring.py:48-63), read with .get by solver.py.
place_for_router(r) ==
    Place(r.lat, r.lng, r.category, Some(r.score),
          IF "opening_hours" \in DOMAIN r THEN r.opening_hours ELSE None)

\* main.py:121-127: the centroid of the ranked places with coordinates.
trip_hotel(scored) ==
    LET valid == SelectSeq(scored, LAMBDA r : r.lat \notin {None, Some(0)}
                                              /\ r.lng \notin {None, Some(0)})
    IN  IF valid = <<>> THEN None
        ELSE Some(<<SumSeq([k \in 1..Len(valid) |-> Val(valid[k].lat)]) \div Len(valid),
                    SumSeq([k \in 1..Len(valid) |-> Val(valid[k].lng)]) \div Len(valid)>>)

\* solve as one step (solver.py:356-473): the route lists a call may
\* return for these arguments.
solve_outcomes(ps, hotel, n_days) ==
    IF valid_places(ps) = <<>> THEN {EmptyDays(n_days)}
    ELSE LET d == create_data_model(valid_places(ps),
                      hotel_of(hotel, valid_places(ps)), n_days)
         IN  {extract_solution(d, valid_indices(ps), sol) : sol \in FeasibleSolutions(d)}
                 \cup {EmptyDays(n_days)}

\* response_models.py:477-496.
format_error_response(error_message) ==
    [success |-> FALSE, error |-> Some(error_message), num_days |-> 0,
     days |-> <<>>, hotel |-> None]

\* response_models.py:322-474: every day of the solver's output, in order.
format_itinerary_response(n_days, solver_output, hotel) ==
    [success |-> TRUE, error |-> None, num_days |-> n_days,
     days |-> [v \in 1..Len(solver_output) |->
                  [day_number |-> solver_output[v].day_number,
                   places |-> solver_output[v].items]],
     hotel |-> hotel]

TripSteps == {"Received", "Enriched", "Forecast", "Scored", "Routed"}

\* Mutant: the try block opens after the candidates are generated.
in_try_after_candidates(step) == step # "Received"

\* main.py:58-164: the whole body of generate_trip is inside the try block.
in_try(step) == TRUE

\* What the places service hands back for a candidate: coordinates or a
\* failed lookup, a rating above or below the threshold, opening hours or
\* none.
TripCandidateChoices ==
    {Candidate(lat, IF lat = None THEN None ELSE Some(MeridianLng), Given(<<>>),
               rating, Some(1500), Given("museum")) @@ [opening_hours |-> h] :
        lat \in {None, Some(1)}, rating \in {Some(10), Some(45)},
        h \in {None, Some([d \in {1} |-> [open |-> 600, close |-> 1080]])}}

InitTrip ==
    /\ start_date \in {None, Some(1)}
    /\ end_date \in {Some(0), Some(1), Some(2)}
    /\ trip_pc = "Received"
    /\ response = None
    /\ places = <<>>
    /\ hotel_coords = None
    /\ num_days = 1
    /\ time_limit_seconds = DEFAULT_TIME_LIMIT
    /\ pc = "Unsolved"
    /\ data = None
    /\ min_cost = None
    /\ solution = None
    /\ converged = FALSE
    /\ days = None
    /\ NoIntake
    /\ Unranked

\* main.py:72-92: candidates generated and enriched; none is an error.
TripEnrich ==
    /\ trip_pc = "Received"
    /\ \E cs \in SeqsUpTo(TripCandidateChoices, MaxPlaces) :
          /\ candidates' = Named(cs)
          /\ IF cs = <<>>
             THEN /\ response' = Some(format_error_response("no candidates"))
                  /\ trip_pc' = "Responded"
             ELSE /\ response' = response
                  /\ trip_pc' = "Enriched"
    /\ UNCHANGED <<start_date, end_date, weather, centroid_arg, rank_pc, ranked,
                   ranked_again, scorer_attrs>>
    /\ UNCHANGED <<router, intake>>

\* main.py:101-105: fetch_weather gives a record or None.
TripWeather ==
    /\ trip_pc = "Enriched"
    /\ weather' \in {None, RainWeather}
    /\ trip_pc' = "Forecast"
    /\ UNCHANGED <<start_date, end_date, response, candidates, centroid_arg,
                   rank_pc, ranked, ranked_again, scorer_attrs>>
    /\ UNCHANGED <<router, intake>>

\* main.py:108-117: rank_places; an empty ranking is an error.
TripScore ==
    /\ trip_pc = "Forecast"
    /\ ~rank_places_raises(candidates, weather, None)
    /\ ranked' = Some(rank_places(candidates, weather, None))
    /\ rank_pc' = "Ranked"
    /\ IF Val(ranked') = <<>>
       THEN /\ response' = Some(format_error_response("no place above the threshold"))
            /\ trip_pc' = "Responded"
       ELSE /\ response' = response
            /\ trip_pc' = "Scored"
    /\ UNCHANGED <<start_date, end_date, candidates, weather, centroid_arg,
                   ranked_again, scorer_attrs>>
    /\ UNCHANGED <<router, intake>>

\* main.py:121-135: solve_itinerary on the ranked places.
TripSolve ==
    /\ trip_pc = "Scored"
    /\ places' = [i \in 1..Len(Val(ranked)) |-> place_for_router(Val(ranked)[i])]
    /\ hotel_coords' = trip_hotel(Val(ranked))
    /\ num_days' = trip_num_days(start_date, end_date)
    /\ data' = IF valid_places(places') = <<>> THEN None
               ELSE Some(create_data_model(valid_places(places'),
                             hotel_of(hotel_coords', valid_places(places')),
                             num_days'))
    /\ \E ds \in solve_outcomes(places', hotel_coords', num_days') : days' = Some(ds)
    /\ pc' = "Returned"
    /\ trip_pc' = "Routed"
    /\ UNCHANGED <<time_limit_seconds, min_cost, solution, converged>>
    /\ UNCHANGED <<start_date, end_date, response>>
    /\ UNCHANGED <<scorer, intake>>

\* main.py:141-154.
TripFormat ==
    /\ trip_pc = "Routed"
    /\ response' = Some(format_itinerary_response(num_days, Val(days), hotel_coords))
    /\ trip_pc' = "Responded"
    /\ UNCHANGED <<start_date, end_date>>
    /\ UNCHANGED <<router, scorer, intake>>

\* main.py:156-164: a step raises; the handler of the try block answers.
TripStepRaises ==
    /\ trip_pc \in TripSteps
    /\ IF in_try(trip_pc)
       THEN /\ response' = Some(format_error_response("an error occurred"))
            /\ trip_pc' = "Responded"
       ELSE /\ response' = response
            /\ trip_pc' = "Raised"
    /\ UNCHANGED <<start_date, end_date>>
    /\ UNCHANGED <<router, scorer, intake>>

NextTrip ==
    \/ TripEnrich
    \/ TripWeather
    \/ TripScore
    \/ TripSolve
    \/ TripFormat
    \/ TripStepRaises

SpecTrip == InitTrip /\ [][NextTrip]_vars

\* -------------------------------------------------------------------------
\* C26: the answer of generate_trip (SpecTrip).

ErrorResponse(r) ==
    /\ ~r.success
    /\ r.error # None
    /\ r.num_days = 0
    /\ r.days = <<>>
    /\ r.hotel = None

\* A success response that holds every day route the solver returned.
CompleteResponse(r) ==
    /\ r.success
    /\ r.error = None
    /\ days # None
    /\ r.num_days = trip_num_days(start_date, end_date)
    /\ Len(r.days) = r.num_days
    /\ \A v \in 1..Len(r.days) :
          /\ r.days[v].day_number = v
          /\ r.days[v].places = Val(days)[v].items

\* C26: no exception leaves generate_trip, and what it returns is either a
\* complete success response or the error response (success false, a
\* message, num_days 0, no days, no hotel); nothing is returned before.
C26_CompleteOrError ==
    /\ trip_pc # "Raised"
    /\ trip_pc = "Responded" =>
           (response # None
            /\ (ErrorResponse(Val(response)) \/ CompleteResponse(Val(response))))
    /\ trip_pc # "Responded" => response = None

\* The formatter raised after the solver had built a route with a stop; the
\* answer is the error response.
C26_ErrorAfterRoutesBuilt ==
    /\ trip_pc = "Responded"
    /\ ErrorResponse(Val(response))
    /\ days # None
    /\ \E v \in 1..Len(Val(days)) : Val(days)[v].items # <<>>

\* -------------------------------------------------------------------------
\* C27: opening hours along the pipeline (SpecTrip).

\* C27: every place handed to the router carries the opening_hours that
\* enrichment put on the candidate it was ranked from.
C27_OpeningHoursReachRouter ==
    trip_pc = "Routed" =>
        \A i \in 1..Len(places) :
            places[i].opening_hours
                = candidates[InputIndex(Val(ranked)[i].name)].opening_hours

\* -------------------------------------------------------------------------
\* C28: one visit duration per place (Spec).

\* The duration get_time_window derives the window of a place from
\* (solver.py:223-225).
WindowDuration(place) == get_visit_duration(Lower(GetOr(place.category, "")))

\* C28: for every place of a routing model, with or without a category, the
\* visit duration behind its time window is its service time, and the
\* duration on each of its stops.
C28_OneDurationPerPlace ==
    data # None =>
        /\ \A i \in 1..Len(Val(data).places) :
               WindowDuration(Val(data).places[i]) = Val(data).service_times[i]
        /\ days # None =>
               \A v \in DOMAIN Val(days) :
                   \A k \in 1..Len(Val(days)[v].items) :
                       \E i \in 1..Len(Val(data).places) :
                           /\ Val(days)[v].items[k].duration
                                  = Val(data).service_times[i]
                           /\ Val(days)[v].items[k].duration
                                  = WindowDuration(Val(data).places[i])

\* -------------------------------------------------------------------------
\* C30: the stops of a returned day route lie inside the day (Spec).

Queries == {"tower", "temple"}

\* A candidate as generated: name, search_query, category.
Generated(q) == [name |-> q, search_query |-> q, category |-> "landmark"]

\* What fetch_place_details returns for a query: None for no results or an
\* exception (places_api.py:91-93, 119-121), else the top result's record,
\* whose location may be missing (places_api.py:98-110).
LookupResults(q) ==
    {None}
    \cup {Some([place_id |-> Some(<<"id", q>>),
                formatted_address |-> Some(<<"address", q>>),
                lat |-> c, lng |-> c, rating |-> Some(45)]) : c \in {None, Some(1)}}

\* {**candidate, **place_data}: the lookup's keys win.
merged(candidate, place_data) == place_data @@ candidate

\* candidate.update({...}) for a failed lookup.
unenriched(candidate) ==
    [lat |-> None, lng |-> None, formatted_address |-> None, rating |-> None]
        @@ candidate

\* candidate.update({...}) with mock data; i counts from zero and the mock
\* coordinates are in hundredths of a degree from the mock origin.
mocked(candidate, i) ==
    [place_id |-> Some(<<"mock_place", i>>),
     formatted_address |-> Some(<<"address", candidate.search_query>>),
     lat |-> Some(i), lng |-> Some(i), rating |-> Some(45)] @@ candidate

\* Mutant: the results in the order the lookups completed.
gather_as_completed(results, order) ==
    [k \in 1..Len(order) |-> results[order[k]].result]

\* asyncio.gather(*tasks): the results in the order of the tasks.
gather(results, order) == [i \in 1..Len(order) |-> results[i].result]

\* A lookup task: not finished, or finished with its result.
Pending == [done |-> FALSE, result |-> None]
Done(result) == [done |-> TRUE, result |-> result]

InitEnrich ==
    /\ enrich_pc \in {"Gathering", "NoKey"}
    /\ enrich_in \in {[i \in 1..Len(qs) |-> Generated(qs[i])] :
                         qs \in SeqsUpTo(Queries, MaxCandidates)}
    /\ lookups = [i \in 1..Len(enrich_in) |-> Pending]
    /\ completed = <<>>
    /\ enriched = None
    /\ regular_hours = None
    /\ parse_pc = "Unparsed"
    /\ parsed = None
    /\ places = <<>>
    /\ hotel_coords = None
    /\ num_days = 1
    /\ time_limit_seconds = DEFAULT_TIME_LIMIT
    /\ Idle
    /\ NoTrip
    /\ Unranked

\* places_api.py:133-148: no API key.
EnrichMock ==
    /\ enrich_pc = "NoKey"
    /\ enriched' = Some([i \in 1..Len(enrich_in) |-> mocked(enrich_in[i], i - 1)])
    /\ enrich_pc' = "Returned"
    /\ UNCHANGED <<enrich_in, lookups, completed>>
    /\ UNCHANGED <<regular_hours, parse_pc, parsed, router, scorer, trip>>

\* One of the parallel lookups finishes (places_api.py:71-121).
LookupCompletes ==
    /\ enrich_pc = "Gathering"
    /\ \E i \in 1..Len(enrich_in) :
          /\ lookups[i] = Pending
          /\ \E result \in LookupResults(enrich_in[i].search_query) :
                lookups' = [lookups EXCEPT ![i] = Done(result)]
          /\ completed' = Append(completed, i)
    /\ UNCHANGED <<enrich_pc, enrich_in, enriched>>
    /\ UNCHANGED <<regular_hours, parse_pc, parsed, router, scorer, trip>>

\* places_api.py:158-177: gather returns once every lookup has, and the
\* results are merged back into the candidates.
EnrichMerge ==
    /\ enrich_pc = "Gathering"
    /\ Len(completed) = Len(enrich_in)
    /\ LET results == gather(lookups, completed)
       IN  enriched' = Some([i \in 1..Len(enrich_in) |->
                               IF results[i] # None
                               THEN merged(enrich_in[i], Val(results[i]))
                               ELSE unenriched(enrich_in[i])])
    /\ enrich_pc' = "Returned"
    /\ UNCHANGED <<enrich_in, lookups, completed>>
    /\ UNCHANGED <<regular_hours, parse_pc, parsed, router, scorer, trip>>

NextEnrich == EnrichMock \/ LookupCompletes \/ EnrichMerge

SpecEnrich == InitEnrich /\ [][NextEnrich]_vars

\* -------------------------------------------------------------------------
\* C29: enrichment keeps the candidates and their order (SpecEnrich).

\* The lookup of candidate i found a place.
Found(i) == lookups[i].done /\ lookups[i].result # None

\* The lookup of candidate i failed.
Failed(i) == lookups[i].done /\ lookups[i].result = None

\* C29: enrich_candidates returns one record per input candidate, in input
\* order; record i keeps candidate i's own fields and carries the result of
\* candidate i's lookup, whatever the order in which the lookups completed;
\* a candidate whose lookup failed is kept with lat and lng null.
C29_OneRecordPerCandidateInOrder ==
    enrich_pc = "Returned" =>
        /\ Len(Val(enriched)) = Len(enrich_in)
        /\ \A i \in 1..Len(enrich_in) :
              LET record == Val(enriched)[i]
              IN  /\ record.name = enrich_in[i].name
                  /\ record.search_query = enrich_in[i].search_query
                  /\ record.category = enrich_in[i].category
                  /\ Failed(i) =>
                         record.lat = None /\ record.lng = None
                  /\ Found(i) =>
                         /\ "place_id" \in DOMAIN record
                         /\ record.place_id = Some(<<"id", enrich_in[i].search_query>>)
                         /\ record.lat = Val(lookups[i].result).lat
                         /\ record.lng = Val(lookups[i].result).lng

\* The lookups of two different queries finished in the reverse of the
\* input order, one found and one failed.
C29_CompletedOutOfOrder ==
    /\ enrich_pc = "Returned"
    /\ Len(completed) >= 2
    /\ completed[1] > completed[2]
    /\ enrich_in[completed[1]].search_query # enrich_in[completed[2]].search_query
    /\ Failed(completed[1])
    /\ Found(completed[2])

====
